---- MODULE Spec2Model ----
(***************************************************************************)
(* A model of the retrieval/generation core of MOSDAC-SIMPLIFIED:          *)
(*   - VectorStore      (src/MOSDAC-SIMPLIFIED/vector_store.py)            *)
(*   - RAGEngine        (src/MOSDAC-SIMPLIFIED/rag_engine.py)              *)
(*   - PDFProcessor     (src/MOSDAC-SIMPLIFIED/pdf_processor.py)           *)
(*   - initialize_system (src/app.py)                                      *)
(* Five specifications share the module:                                   *)
(*   Spec       the in-memory VectorStore API with search;                 *)
(*   SpecDisk   the VectorStore with save, load and its artifacts on disk; *)
(*   SpecRAG    RAGEngine.query over the store;                            *)
(*   SpecChunk  PDFProcessor.extract_text / get_text_chunks on documents   *)
(*              drawn from a bounded set;                                  *)
(*   SpecInit   initialize_system run by several sessions over one disk.   *)
(* Texts, questions and provider outputs are sequences of one-character    *)
(* strings, so that substring tests and strip() are computed.              *)
(***************************************************************************)
EXTENDS Integers, Sequences, FiniteSets, TLC

VARIABLES
    vs,        \* the VectorStore under test: [index, texts, metadata]
    files,     \* the two artifacts of the store path: <path>.index, <path>.data
    engine,    \* the RAGEngine: [gemini_available]
    ret,       \* what the last call returned (or that it raised), with what it did
    saved,     \* observation: the artifacts hold what save() wrote from the present store
    doc,       \* the PDF document at pdf_path: [exists, pages]
    pdf,       \* the PDFProcessor: [text, pages]
    sess,      \* SpecInit: per session, the position in initialize_system and its locals
    built,     \* SpecInit observation: a run completed save(), and no artifact was
               \* damaged since that save wrote it
    chat,      \* SpecChat: st.session_state of one browser session
    db         \* SpecAuth: the users table of users.db

vars == <<vs, files, engine, ret, saved, doc, pdf, sess, built, chat, db>>

(***************************************************************************)
(* Bounds of the model.                                                    *)
(***************************************************************************)
MaxEntries == 2      \* most texts a store holds
MaxBatch == 2        \* most texts in one add_texts call
MaxK == 3            \* largest k passed to search / query

(***************************************************************************)
(* Generic helpers.                                                        *)
(***************************************************************************)
Min(a, b) == IF a <= b THEN a ELSE b

Range(s) == {s[i] : i \in 1..Len(s)}

SeqsUpTo(S, n) == UNION {[1..m -> S] : m \in 0..n}

\* Python's seq[idx] for a 0-based idx: a negative idx counts from the end.
PyInRange(s, idx) == -Len(s) <= idx /\ idx < Len(s)

PyGet(s, idx) == IF idx >= 0 THEN s[idx + 1] ELSE s[Len(s) + idx + 1]

(***************************************************************************)
(* Texts and the embedding model.  The sentence-transformer is a black box *)
(* to the program; here it is a fixed table into axis-aligned integer      *)
(* vectors, which normalize_L2 can scale to unit length exactly.  A text    *)
(* stored twice gives two entries whose scores tie.                        *)
(***************************************************************************)
T1 == <<"s", "s", "t">>
T2 == <<"o", "c", "e", "a", "n">>
Texts == {T1, T2}

encode(t) ==
    CASE t = T1 -> <<2, 0>>
      [] t = T2 -> <<0, 3>>
      [] OTHER -> <<0, -2>>

Abs(x) == IF x < 0 THEN -x ELSE x

\* faiss.normalize_L2: v / ||v||; the norm of an axis-aligned vector is |v1| + |v2|.
normalize_L2(v) ==
    LET n == Abs(v[1]) + Abs(v[2])
    IN  IF n = 0 THEN v ELSE <<v[1] \div n, v[2] \div n>>

InnerProduct(u, v) == u[1] * v[1] + u[2] * v[2]

\* The dicts a caller passes as metadata: sets of <<key, value>> pairs.
EmptyDict == {}

MetaOf(t) == {<<"len", Len(t)>>}

(***************************************************************************)
(* VectorStore.                                                            *)
(***************************************************************************)
\* self.index: None, or an IndexFlatIP holding the added vectors xb in order.
NoneIndex == [none |-> TRUE, xb |-> <<>>]

IndexFlatIP == [none |-> FALSE, xb |-> <<>>]

\* VectorStore.__init__
NewVectorStore == [index |-> NoneIndex, texts |-> <<>>, metadata |-> <<>>]

\* create_index: self.index is replaced; self.texts and self.metadata are not touched.
create_index_on(s) == [s EXCEPT !.index = IndexFlatIP]

\* An add_texts that puts the new entries before the stored ones.
add_texts_in_front(s, texts, metadata) ==
    LET s1 == IF s.index.none THEN [s EXCEPT !.index = IndexFlatIP] ELSE s
        embeddings == [i \in 1..Len(texts) |-> normalize_L2(encode(texts[i]))]
    IN  [index |-> [s1.index EXCEPT !.xb = embeddings \o @],
         texts |-> texts \o s1.texts,
         metadata |-> (IF metadata # <<>>
                          THEN metadata
                          ELSE [i \in 1..Len(texts) |-> EmptyDict]) \o s1.metadata]

\* add_texts(texts, metadata): metadata is <<>> for None or [] (both falsy).
add_texts_on(s, texts, metadata) ==
    LET s1 == IF s.index.none THEN create_index_on(s) ELSE s
        embeddings == [i \in 1..Len(texts) |-> normalize_L2(encode(texts[i]))]
    IN  [index |-> [s1.index EXCEPT !.xb = @ \o embeddings],
         texts |-> s1.texts \o texts,
         metadata |-> s1.metadata \o
                        (IF metadata # <<>>
                            THEN metadata
                            ELSE [i \in 1..Len(texts) |-> EmptyDict])]

\* The score faiss reports for a result slot it could not fill (-FLT_MAX for an
\* inner-product index), with label -1.
NegFltMax == -1000

\* index.search(x, k) of an IndexFlatIP: the k best labels (0-based) by inner
\* product, best first, the slots beyond ntotal filled with label -1.  The order
\* among equal scores is the heap's, not specified: every order is possible.
FaissSearch(xb, x, k) ==
    LET n == Len(xb)
        m == Min(k, n)
        ip(i) == InnerProduct(x, xb[i])
        tops == {p \in [1..m -> 1..n] :
                    /\ \A i, j \in 1..m : i # j => p[i] # p[j]
                    /\ \A i \in 1..(m - 1) : ip(p[i]) >= ip(p[i + 1])
                    /\ \A o \in (1..n) \ Range(p) : \A i \in 1..m : ip(o) <= ip(p[i])}
    IN  {[i \in 1..k |-> IF i <= m
                            THEN [score |-> ip(p[i]), label |-> p[i] - 1]
                            ELSE [score |-> NegFltMax, label |-> -1]] : p \in tops}

\* The loop of search over zip(scores[0], indices[0]): "raise" when an index
\* passes the test idx < len(self.texts) but is out of range of a list.  Beside
\* the returned list (value), entries holds the position in the store of the
\* entry each result was read from.
\* A result loop that puts each result in front of the ones before it.
RECURSIVE SearchLoop_inserting_in_front(_, _, _)
SearchLoop_inserting_in_front(s, hits, i) ==
    IF i > Len(hits) THEN [status |-> "ok", value |-> <<>>, entries |-> <<>>]
    ELSE LET idx == hits[i].label
             rest == SearchLoop_inserting_in_front(s, hits, i + 1)
         IN  IF idx < Len(s.texts)
                THEN IF ~PyInRange(s.texts, idx) \/ ~PyInRange(s.metadata, idx)
                        THEN [status |-> "raise", value |-> <<>>, entries |-> <<>>]
                        ELSE IF rest.status = "raise" THEN rest
                        ELSE [status |-> "ok",
                              value |-> rest.value
                                        \o <<[text |-> PyGet(s.texts, idx),
                                              score |-> hits[i].score,
                                              metadata |-> PyGet(s.metadata, idx)]>>,
                              entries |-> rest.entries
                                          \o <<IF idx >= 0 THEN idx + 1
                                                           ELSE Len(s.texts) + idx + 1>>]
                ELSE rest

RECURSIVE SearchLoop(_, _, _)
SearchLoop(s, hits, i) ==
    IF i > Len(hits) THEN [status |-> "ok", value |-> <<>>, entries |-> <<>>]
    ELSE LET idx == hits[i].label
             rest == SearchLoop(s, hits, i + 1)
         IN  IF idx < Len(s.texts)
                THEN IF ~PyInRange(s.texts, idx) \/ ~PyInRange(s.metadata, idx)
                        THEN [status |-> "raise", value |-> <<>>, entries |-> <<>>]
                        ELSE IF rest.status = "raise" THEN rest
                        ELSE [status |-> "ok",
                              value |-> <<[text |-> PyGet(s.texts, idx),
                                           score |-> hits[i].score,
                                           metadata |-> PyGet(s.metadata, idx)]>>
                                        \o rest.value,
                              entries |-> <<IF idx >= 0 THEN idx + 1
                                                        ELSE Len(s.texts) + idx + 1>>
                                          \o rest.entries]
                ELSE rest

\* A search without the early return for a store without index or texts.
search_without_empty_check(s, query, k, encodeOk) ==
    IF ~encodeOk \/ s.index.none
        THEN {[status |-> "raise", value |-> <<>>, entries |-> <<>>]}
    ELSE {SearchLoop(s, hits, 1) :
            hits \in FaissSearch(s.index.xb, normalize_L2(encode(query)), k)}

\* A search that takes the entries it returns out of the store.
store_after_consuming_search(s, query, k) ==
    [s EXCEPT !.texts = <<>>, !.metadata = <<>>]

\* The store after search(query, k): search reads self.index, self.texts and
\* self.metadata and assigns to none of them, whether it returns or raises.
store_after_search(s, query, k) == s

\* search(query, k): the set of results it can return; encodeOk is whether the
\* embedding model answered (it raises otherwise, and so does search).
search_results(s, query, k, encodeOk) ==
    IF s.index.none \/ Len(s.texts) = 0
        THEN {[status |-> "ok", value |-> <<>>, entries |-> <<>>]}
    ELSE IF ~encodeOk THEN {[status |-> "raise", value |-> <<>>, entries |-> <<>>]}
    ELSE {SearchLoop(s, hits, 1) :
            hits \in FaissSearch(s.index.xb, normalize_L2(encode(query)), k)}

\* The persisted artifacts.  A file is absent, ok (written whole by save) or
\* malformed (damaged outside the program).
AbsentFile == [state |-> "absent", xb |-> <<>>, texts |-> <<>>, metadata |-> <<>>]

MalformedFile == [state |-> "malformed", xb |-> <<>>, texts |-> <<>>, metadata |-> <<>>]

\* faiss.write_index(self.index, f"{filepath}.index")
write_index(index) ==
    [state |-> "ok", xb |-> index.xb, texts |-> <<>>, metadata |-> <<>>]

\* A pickle_dump that leaves the metadata out of the side table.
pickle_dump_without_metadata(s) ==
    [state |-> "ok", xb |-> <<>>, texts |-> s.texts,
     metadata |-> [i \in 1..Len(s.texts) |-> EmptyDict]]

\* pickle.dump({'texts': self.texts, 'metadata': self.metadata}, f)
pickle_dump(s) ==
    [state |-> "ok", xb |-> <<>>, texts |-> s.texts, metadata |-> s.metadata]

\* save(filepath): nothing is written when self.index is None.
save_files(s, f) ==
    IF s.index.none THEN f
    ELSE [index |-> write_index(s.index), data |-> pickle_dump(s)]

\* faiss.read_index
read_index(file) == [none |-> FALSE, xb |-> file.xb]

\* A load that restores the store and then falls off its end without "return True".
load_without_return_true(s, f) ==
    IF f.index.state # "absent" /\ f.data.state # "absent"
        THEN IF f.index.state = "malformed"
                THEN [store |-> s, status |-> "raise", value |-> FALSE]
             ELSE IF f.data.state = "malformed"
                THEN [store |-> [s EXCEPT !.index = read_index(f.index)],
                      status |-> "raise", value |-> FALSE]
             ELSE [store |-> [index |-> read_index(f.index),
                              texts |-> f.data.texts,
                              metadata |-> f.data.metadata],
                   status |-> "ok", value |-> FALSE]
        ELSE [store |-> s, status |-> "ok", value |-> FALSE]

\* A load that catches what reading a malformed file raises and returns False.
load_catching_errors(s, f) ==
    IF f.index.state = "ok" /\ f.data.state = "ok"
        THEN [store |-> [index |-> read_index(f.index),
                         texts |-> f.data.texts,
                         metadata |-> f.data.metadata],
              status |-> "ok", value |-> TRUE]
        ELSE [store |-> s, status |-> "ok", value |-> FALSE]

\* load(filepath): the store after the call and what the call returned.
\* Both files must exist; reading a malformed file raises out of load, after the
\* assignments made before it.
load_from(s, f) ==
    IF f.index.state # "absent" /\ f.data.state # "absent"
        THEN IF f.index.state = "malformed"
                THEN [store |-> s, status |-> "raise", value |-> FALSE]
             ELSE IF f.data.state = "malformed"
                THEN [store |-> [s EXCEPT !.index = read_index(f.index)],
                      status |-> "raise", value |-> FALSE]
             ELSE [store |-> [index |-> read_index(f.index),
                              texts |-> f.data.texts,
                              metadata |-> f.data.metadata],
                   status |-> "ok", value |-> TRUE]
        ELSE [store |-> s, status |-> "ok", value |-> FALSE]

NoRet == [op |-> "none", status |-> "ok"]

(***************************************************************************)
(* RAGEngine.                                                              *)
(***************************************************************************)
UpperCase == <<"A", "B", "C", "D", "E", "F", "G", "H", "I", "J", "K", "L", "M",
               "N", "O", "P", "Q", "R", "S", "T", "U", "V", "W", "X", "Y", "Z">>

LowerCase == <<"a", "b", "c", "d", "e", "f", "g", "h", "i", "j", "k", "l", "m",
               "n", "o", "p", "q", "r", "s", "t", "u", "v", "w", "x", "y", "z">>

ToLower ==
    [c \in Range(UpperCase) |->
        LowerCase[CHOOSE j \in 1..Len(UpperCase) : UpperCase[j] = c]]

\* str.lower()
Lower(s) ==
    [i \in 1..Len(s) |-> IF s[i] \in DOMAIN ToLower THEN ToLower[s[i]] ELSE s[i]]

\* Python's "t in s" for strings
Contains(s, t) ==
    \E i \in 0..(Len(s) - Len(t)) : SubSeq(s, i + 1, i + Len(t)) = t

Whitespace == {" ", "\n", "\t"}

\* str.strip()
RECURSIVE LStrip(_)
LStrip(s) ==
    IF s # <<>> /\ Head(s) \in Whitespace THEN LStrip(Tail(s)) ELSE s

RECURSIVE RStrip(_)
RStrip(s) ==
    IF s # <<>> /\ s[Len(s)] \in Whitespace
        THEN RStrip(SubSeq(s, 1, Len(s) - 1))
        ELSE s

Strip(s) == RStrip(LStrip(s))

\* util.cos_sim of two texts' embeddings
cos_sim(a, b) == InnerProduct(normalize_L2(encode(a)), normalize_L2(encode(b)))

\* threshold: float = 0.3, in tenths
ThresholdTenths == 3

NotFoundResponse == <<"I couldn't find this information in the document.">>

\* relevant_sentences.sort(key=lambda x: x[1], reverse=True): stable, so equal
\* similarities keep their order.
RECURSIVE SortBySimilarity(_, _)
SortBySimilarity(query, sentences) ==
    IF sentences = <<>> THEN <<>>
    ELSE LET best == CHOOSE x \in {cos_sim(query, sentences[i]) : i \in 1..Len(sentences)} :
                        \A i \in 1..Len(sentences) : cos_sim(query, sentences[i]) <= x
         IN  SelectSeq(sentences, LAMBDA t : cos_sim(query, t) = best)
                \o SortBySimilarity(query, SelectSeq(sentences, LAMBDA t : cos_sim(query, t) < best))

\* The loop over top_sentences[1:]: a sentence is added unless the answer so
\* far holds it.  included lists the sentences the answer was built from.
RECURSIVE Combine(_, _)
Combine(combined, rest) ==
    IF rest = <<>> THEN combined
    ELSE Combine(IF Contains(Lower(combined.answer), Lower(Head(rest)))
                    THEN combined
                    ELSE [answer |-> combined.answer \o <<" ">> \o Head(rest),
                          included |-> Append(combined.included, Head(rest))],
                 Tail(rest))

\* construct_detailed_answer(query, sentences, threshold = 0.3): the answer and
\* the sentences included in it (none for the canonical answer).
detailed_answer(query, sentences) ==
    LET relevant_sentences ==
            SelectSeq(sentences, LAMBDA t : 10 * cos_sim(query, t) >= ThresholdTenths)
        sorted == SortBySimilarity(query, relevant_sentences)
        top_sentences == SubSeq(sorted, 1, Min(3, Len(sorted)))
    IN  IF sentences = <<>> \/ relevant_sentences = <<>>
            THEN [answer |-> NotFoundResponse, included |-> <<>>]
        ELSE IF Len(top_sentences) = 1
            THEN [answer |-> top_sentences[1], included |-> top_sentences]
        ELSE Combine([answer |-> Head(top_sentences), included |-> <<Head(top_sentences)>>],
                     Tail(top_sentences))

\* The string construct_detailed_answer returns.
construct_detailed_answer(query, sentences) == detailed_answer(query, sentences).answer

\* The lexicon of is_weather_query ("deg" stands for the degree sign, one character).
weather_terms ==
    { <<"w", "e", "a", "t", "h", "e", "r">>,
      <<"f", "o", "r", "e", "c", "a", "s", "t">>,
      <<"t", "e", "m", "p", "e", "r", "a", "t", "u", "r", "e">>,
      <<"r", "a", "i", "n">>,
      <<"s", "u", "n", "n", "y">>,
      <<"c", "l", "o", "u", "d", "y">>,
      <<"h", "u", "m", "i", "d", "i", "t", "y">>,
      <<"p", "r", "e", "c", "i", "p", "i", "t", "a", "t", "i", "o", "n">>,
      <<"w", "i", "n", "d">>,
      <<"c", "l", "i", "m", "a", "t", "e">>,
      <<"d", "e", "g", "r", "e", "e">>,
      <<"deg", "C">>,
      <<"deg", "F">> }

is_weather_query(question) ==
    \E term \in weather_terms : Contains(Lower(question), term)

QRain == <<"R", "a", "i", "n", "?">>
QBrain == <<"b", "r", "a", "i", "n">>

\* The questions asked: two the lexicon matches (one through lower(), one through
\* a substring of another word) and two it does not (the texts T1, T2 themselves).
Questions == {QRain, QBrain, T1, T2}

\* What one generate_content call does: it raises, or returns a response whose
\* .text is the given string.
GenRaises == [raises |-> TRUE, text |-> <<>>]

GenAnswer == [raises |-> FALSE, text |-> <<" ", "o", "k", "\n">>]

GenBlank == [raises |-> FALSE, text |-> <<" ", "\n">>]

GenOutcomes == {GenRaises, GenAnswer, GenBlank}

\* The generate_content calls one query can make: the weather call,
\* generate_response's and the fallback's.
MaxCalls == 3

\* A prompt: the f-string's template and the values interpolated into it.
WeatherPrompt(question) == [template |-> "weather", parts |-> <<question>>]

GeneratePrompt(query, context_docs) == [template |-> "generate", parts |-> <<query>>]

FallbackPrompt(query, context_docs) == [template |-> "fallback", parts |-> <<query>>]

CannedResponse == <<"I'd be happy to help with that! Please try again in a moment.">>

\* A fallback that sends its prompt once more after a call that raised.
fallback_retrying(e, query, context_docs, outs, n) ==
    IF ~e.gemini_available
        THEN [response |-> CannedResponse, prompts |-> <<>>, raised |-> 0]
    ELSE IF outs[n].raises
        THEN [response |-> CannedResponse,
              prompts |-> <<FallbackPrompt(query, context_docs),
                            FallbackPrompt(query, context_docs)>>, raised |-> 2]
    ELSE [response |-> Strip(outs[n].text),
          prompts |-> <<FallbackPrompt(query, context_docs)>>, raised |-> 0]

\* _fallback_generate_response; outs[n] is what the next generate_content call does.
\* Returns the response with the prompts sent and the number of calls that raised.
fallback_generate_response(e, query, context_docs, outs, n) ==
    IF ~e.gemini_available
        THEN [response |-> CannedResponse, prompts |-> <<>>, raised |-> 0]
    ELSE IF outs[n].raises
        THEN [response |-> CannedResponse,
              prompts |-> <<FallbackPrompt(query, context_docs)>>, raised |-> 1]
    ELSE [response |-> Strip(outs[n].text),
          prompts |-> <<FallbackPrompt(query, context_docs)>>, raised |-> 0]

\* generate_response
generate_response(e, query, context_docs, outs, n) ==
    IF ~e.gemini_available
        THEN fallback_generate_response(e, query, context_docs, outs, n)
    ELSE IF outs[n].raises
        THEN LET f == fallback_generate_response(e, query, context_docs, outs, n + 1)
             IN  [response |-> f.response,
                  prompts |-> <<GeneratePrompt(query, context_docs)>> \o f.prompts,
                  raised |-> 1 + f.raised]
    ELSE [response |-> Strip(outs[n].text),
          prompts |-> <<GeneratePrompt(query, context_docs)>>, raised |-> 0]

\* retrieve_relevant_docs: [result[0] for result in results]
retrieve_relevant_docs(results) == [i \in 1..Len(results) |-> results[i].text]

NoValue ==
    [question |-> <<>>, response |-> <<>>, relevant_docs |-> <<>>,
     num_docs_retrieved |-> 0, gemini_available |-> FALSE]

\* query(question, k): sr is what vector_store.search(question, k) returns if it
\* is called.  The record holds the returned dict (value) or that query raised,
\* and what the call did: the searches made, the prompts sent to
\* generate_content, how many of those calls raised.
query_run(e, question, outs, sr) ==
    LET weather == is_weather_query(question)
        direct == weather /\ e.gemini_available
        pre == IF direct THEN <<WeatherPrompt(question)>> ELSE <<>>
        preRaised == IF direct THEN 1 ELSE 0
        n0 == IF direct THEN 2 ELSE 1
    IN  IF direct /\ ~outs[1].raises
            THEN [op |-> "query", status |-> "ok", weather |-> weather,
                  value |-> [question |-> question,
                             response |-> Strip(outs[1].text),
                             relevant_docs |-> <<>>,
                             num_docs_retrieved |-> 0,
                             gemini_available |-> TRUE],
                  searches |-> 0, found |-> <<>>, prompts |-> pre, raised |-> 0]
        ELSE IF sr.status = "raise"
            THEN [op |-> "query", status |-> "raise", weather |-> weather,
                  value |-> NoValue,
                  searches |-> 1, found |-> <<>>, prompts |-> pre, raised |-> preRaised]
        ELSE LET relevant_docs == retrieve_relevant_docs(sr.value)
                 g == generate_response(e, question, relevant_docs, outs, n0)
             IN  [op |-> "query", status |-> "ok", weather |-> weather,
                  value |-> [question |-> question,
                             response |-> g.response,
                             relevant_docs |-> relevant_docs,
                             num_docs_retrieved |-> Len(relevant_docs),
                             gemini_available |-> e.gemini_available],
                  searches |-> 1, found |-> relevant_docs,
                  prompts |-> pre \o g.prompts, raised |-> preRaised + g.raised]

(***************************************************************************)
(* The calls, made one at a time by a single-threaded caller.  A call is   *)
(* one step: it records in ret what it returned and did; the caller then   *)
(* takes the result (Return) before it makes the next call, so ret always  *)
(* describes the call just made.                                           *)
(*   Spec      the in-memory VectorStore API with search;                  *)
(*   SpecDisk  the same store with save, load and the artifacts on disk;   *)
(*   SpecRAG   RAGEngine.query over the store.                             *)
(***************************************************************************)
NoDoc == [exists |-> FALSE, pages |-> <<>>]

NoPdf == [text |-> <<>>, pages |-> <<>>]

NoSess == <<>>

\* st.session_state as the top of app.py fills it (rag_engine: FALSE for None).
\* init_calls and init_failed observe the calls of initialize_system.
NoChat ==
    [logged_in |-> FALSE, initialized |-> FALSE, rag_engine |-> FALSE,
     messages |-> <<>>, rerun |-> FALSE, init_calls |-> 0, init_failed |-> FALSE]

\* No users.db file.
NoDb == [tables |-> FALSE, users |-> {}]

Idle ==
    /\ doc = NoDoc /\ pdf = NoPdf /\ sess = NoSess /\ built = FALSE
    /\ chat = NoChat /\ db = NoDb

Init ==
    /\ vs = NewVectorStore
    /\ files = [index |-> AbsentFile, data |-> AbsentFile]
    /\ engine = [gemini_available |-> TRUE]
    /\ ret = NoRet
    /\ saved = FALSE
    /\ Idle

\* RAGEngine.__init__: gemini_available is False when configuring the provider raised.
InitRAG ==
    /\ vs = NewVectorStore
    /\ files = [index |-> AbsentFile, data |-> AbsentFile]
    /\ engine \in {[gemini_available |-> b] : b \in BOOLEAN}
    /\ ret = NoRet
    /\ saved = FALSE
    /\ Idle

OtherUnchanged == UNCHANGED <<doc, pdf, sess, built, chat, db>>

\* No call's result is pending.
Ready == ret = NoRet

\* The caller takes the pending result.
Return ==
    /\ ~Ready
    /\ ret' = NoRet
    /\ UNCHANGED <<vs, files, engine, saved>>
    /\ OtherUnchanged

\* VectorStore(...): a fresh store object replaces the one under test.
VectorStore_init ==
    /\ Ready
    /\ vs' = NewVectorStore
    /\ saved' = FALSE
    /\ ret' = [op |-> "VectorStore", status |-> "ok"]
    /\ UNCHANGED <<files, engine>>
    /\ OtherUnchanged

create_index ==
    /\ Ready
    /\ vs' = create_index_on(vs)
    /\ saved' = FALSE
    /\ ret' = [op |-> "create_index", status |-> "ok"]
    /\ UNCHANGED <<files, engine>>
    /\ OtherUnchanged

\* add_texts(texts, metadata): metadata omitted, [] or one dict per text.  When
\* the embedding model raises, the index has already been created.
add_texts ==
    \E texts \in SeqsUpTo(Texts, MaxBatch) \ {<<>>}, how \in {"omitted", "empty", "given"},
       encodeOk \in BOOLEAN :
        /\ Ready
        /\ Len(vs.texts) + Len(texts) <= MaxEntries
        /\ Len(vs.index.xb) + Len(texts) <= MaxEntries
        /\ LET metadata == IF how = "given"
                              THEN [i \in 1..Len(texts) |-> MetaOf(texts[i])]
                              ELSE <<>>
           IN  vs' = IF encodeOk
                        THEN add_texts_on(vs, texts, metadata)
                        ELSE IF vs.index.none THEN create_index_on(vs) ELSE vs
        /\ saved' = FALSE
        /\ ret' = [op |-> "add_texts", status |-> IF encodeOk THEN "ok" ELSE "raise",
                   texts |-> texts, how |-> how]
        /\ UNCHANGED <<files, engine>>
        /\ OtherUnchanged

search ==
    \E query \in Questions, k \in 1..MaxK, encodeOk \in BOOLEAN :
        \E r \in search_results(vs, query, k, encodeOk) :
            /\ Ready
            /\ ret' = [op |-> "search", status |-> r.status, value |-> r.value,
                       entries |-> r.entries, query |-> query, k |-> k]
            /\ vs' = store_after_search(vs, query, k)
            /\ UNCHANGED <<files, engine, saved>>
            /\ OtherUnchanged

\* save(path).  saved records that the artifacts now hold what save wrote from
\* the store's present fields; any later change of the store or the files ends it.
save ==
    /\ Ready
    /\ files' = save_files(vs, files)
    /\ saved' = ~vs.index.none
    /\ ret' = [op |-> "save", status |-> "ok"]
    /\ UNCHANGED <<vs, engine>>
    /\ OtherUnchanged

\* load(path), called on the store under test or on a fresh VectorStore made for
\* it; the fresh store lives in ret until the caller drops it.
load ==
    \E fresh \in BOOLEAN :
        LET r == load_from(IF fresh THEN NewVectorStore ELSE vs, files)
        IN  /\ Ready
            /\ vs' = IF fresh THEN vs ELSE r.store
            /\ saved' = IF fresh THEN saved ELSE FALSE
            /\ ret' = [op |-> "load", status |-> r.status, value |-> r.value,
                       fresh |-> fresh, store |-> r.store]
            /\ UNCHANGED <<files, engine>>
            /\ OtherUnchanged

\* The environment damages or removes one artifact.
Tamper ==
    \E which \in {"index", "data"}, to \in {AbsentFile, MalformedFile} :
        /\ Ready
        /\ files[which].state = "ok"
        /\ files' = [files EXCEPT ![which] = to]
        /\ saved' = FALSE
        /\ ret' = [op |-> "tamper", status |-> "ok"]
        /\ UNCHANGED <<vs, engine>>
        /\ OtherUnchanged

\* query(question, k): the store is touched only through vector_store.search,
\* when retrieve_relevant_docs is reached.
query ==
    /\ Ready
    /\ \E question \in Questions, k \in 1..MaxK, encodeOk \in BOOLEAN :
        \E sr \in search_results(vs, question, k, encodeOk) :
            \E outs \in [1..MaxCalls -> GenOutcomes] :
                /\ ret' = query_run(engine, question, outs, sr)
                /\ vs' = IF ret'.searches = 1
                            THEN store_after_search(vs, question, k)
                            ELSE vs
    /\ UNCHANGED <<files, engine, saved>>
    /\ OtherUnchanged

Next ==
    \/ Return
    \/ VectorStore_init
    \/ create_index
    \/ add_texts
    \/ search

Spec == Init /\ [][Next]_vars

NextDisk ==
    \/ Return
    \/ VectorStore_init
    \/ create_index
    \/ add_texts
    \/ save
    \/ load
    \/ Tamper

SpecDisk == Init /\ [][NextDisk]_vars

NextRAG ==
    \/ Return
    \/ VectorStore_init
    \/ create_index
    \/ add_texts
    \/ query

SpecRAG == InitRAG /\ [][NextRAG]_vars

(***************************************************************************)
(* construct_detailed_answer on its own (SpecAnswer): query never calls    *)
(* it, so it is applied to the sentence lists a caller can pass.           *)
(***************************************************************************)
MaxSentences == 3    \* most sentences passed to construct_detailed_answer

SRain == <<"R", "a", "i", "n">>
SSun == <<"S", "u", "n">>

\* Candidate sentences: three that score 1 against QRain and QBrain (one of
\* them inside another but for its case), and one that scores 1 against T1.
Sentences == {SRain, QBrain, SSun, T1}

construct_detailed_answer_call ==
    /\ Ready
    /\ \E q \in Questions, sentences \in SeqsUpTo(Sentences, MaxSentences) :
          ret' = [op |-> "construct_detailed_answer", status |-> "ok",
                  query |-> q, sentences |-> sentences,
                  value |-> construct_detailed_answer(q, sentences),
                  included |-> detailed_answer(q, sentences).included]
    /\ UNCHANGED <<vs, files, engine, saved>>
    /\ OtherUnchanged

NextAnswer ==
    \/ Return
    \/ construct_detailed_answer_call

SpecAnswer == Init /\ [][NextAnswer]_vars

(***************************************************************************)
(* PDFProcessor.  A page's extracted text is kept as its number of         *)
(* whitespace-separated words and its number of characters; a chunk is the *)
(* page label it carries and the interval of the page's words it joins.    *)
(***************************************************************************)
MaxPages == 2        \* most pages of a document
MaxWords == 6        \* most words on a page of a small document
MaxChunkSize == 5    \* largest chunk_size tried beside the configured one
MaxHeld == 4         \* most entries self.pages grows to

\* config.py
CHUNK_SIZE == 1000

CHUNK_OVERLAP == 200

\* A page text of n one-letter words separated by single blanks.  marker is the
\* position of the word "---" of a "--- Page" the text itself holds, 0 for none.
ShortPage(n) == [nwords |-> n, nchars |-> IF n = 0 THEN 0 ELSE 2 * n - 1, marker |-> 0]

\* A page text of n five-letter words separated by single blanks.
LongPage(n) == [nwords |-> n, nchars |-> 6 * n - 1, marker |-> 0]

\* A page text of n words separated by single blanks, one-letter words except
\* the words m and m + 1, which are "---" and "Page" (1 <= m < n).
MarkedPage(n, m) == [nwords |-> n, nchars |-> 2 * n + 4, marker |-> m]

PresentDoc(pages) == [exists |-> TRUE, pages |-> pages]

\* The documents: the missing file, every document of up to MaxPages short
\* pages, three documents with pages of 10, 900 and 2500 words, and two with a
\* page whose text holds "--- Page".
Docs ==
    {NoDoc}
    \cup {PresentDoc(ps) : ps \in SeqsUpTo({ShortPage(n) : n \in 0..MaxWords}, MaxPages)}
    \cup {PresentDoc(<<LongPage(10), LongPage(2500)>>),
          PresentDoc(<<LongPage(900)>>),
          PresentDoc(<<LongPage(1200), LongPage(10)>>),
          PresentDoc(<<MarkedPage(4, 2)>>),
          PresentDoc(<<MarkedPage(3, 2), ShortPage(2)>>)}

\* The (chunk_size, overlap) pairs get_text_chunks is called with: nothing
\* restricts the two integers.
ChunkArgs ==
    [chunk_size : 1..MaxChunkSize, overlap : 0..MaxChunkSize]
    \cup {[chunk_size |-> CHUNK_SIZE, overlap |-> CHUNK_OVERLAP]}

\* len(str(n))
Digits(n) == IF n < 10 THEN 1 ELSE IF n < 100 THEN 2 ELSE 3

\* The text extract_text builds: one segment "\n--- Page {n} ---\n{page_text}\n"
\* per page, in order.
TextOf(pages) ==
    [i \in 1..Len(pages) |-> [page_number |-> i, text |-> pages[i]]]

\* extract_text when the reader raises after okUpTo pages (never, when okUpTo is
\* the number of pages): self.pages has grown by the pages read, self.text is
\* assigned only at the end, and "" is returned when anything raised.
extract_text_on(p, d, okUpTo) ==
    LET done == d.exists /\ okUpTo = Len(d.pages)
        read == [i \in 1..okUpTo |-> [page_number |-> i, text |-> d.pages[i]]]
    IN  [pdf |-> [text |-> IF done THEN TextOf(d.pages) ELSE p.text,
                  pages |-> p.pages \o read],
         value |-> IF done THEN TextOf(d.pages) ELSE <<>>]

\* The pieces text.split("--- Page") cuts the segment of the i-th page into.  An
\* unmarked page gives one: " {n} ---\n{page_text}\n" and, before a next segment,
\* that segment's leading "\n"; its split() words are the two header words "{n}"
\* and "---" and then the page's words.  A page whose text holds "--- Page" is
\* cut there once more: the header with the words before the marker, and the
\* words after it.
segment_splits(text, i) ==
    LET t == text[i].text
        d == Digits(text[i].page_number)
        tail == IF i < Len(text) THEN 1 ELSE 0
    IN  IF t.marker = 0
            THEN <<[page |-> i, nchars |-> t.nchars + d + 7 + tail, nwords |-> t.nwords + 2]>>
            ELSE <<[page |-> i, nchars |-> d + 6 + 2 * (t.marker - 1),
                    nwords |-> 2 + (t.marker - 1)],
                   [page |-> i, nchars |-> 2 * (t.nwords - t.marker - 1) + 1 + tail,
                    nwords |-> t.nwords - t.marker - 1]>>

RECURSIVE SplitsFrom(_, _)
SplitsFrom(text, i) ==
    IF i > Len(text) THEN <<>> ELSE segment_splits(text, i) \o SplitsFrom(text, i + 1)

\* text.split("--- Page")[1:]
page_splits(text) == SplitsFrom(text, 1)

\* list(range(0, stop, step)) for step > 0; empty for step < 0.
PyRange(stop, step) ==
    IF step <= 0 \/ stop <= 0 THEN <<>>
    ELSE [n \in 1..((stop + step - 1) \div step) |-> (n - 1) * step]

\* The chunks of the i-th split: the words j+1 .. min(j+chunk_size, len(words)) for
\* each j of the range when the split has more than chunk_size characters, else
\* the whole split unless it strips to nothing.  A chunk carries the label i and,
\* to tell where its words came from, the page of the split.
page_chunks(i, split, chunk_size, overlap) ==
    IF split.nchars > chunk_size
        THEN LET js == PyRange(split.nwords, chunk_size - overlap)
                 all == [n \in 1..Len(js) |->
                            [label |-> i, page |-> split.page, from |-> js[n] + 1,
                             to |-> Min(js[n] + chunk_size, split.nwords)]]
             IN  SelectSeq(all, LAMBDA c : c.to >= c.from)
        ELSE IF split.nwords > 0
            THEN <<[label |-> i, page |-> split.page, from |-> 1, to |-> split.nwords]>>
            ELSE <<>>

RECURSIVE ChunksFrom(_, _, _, _)
ChunksFrom(splits, i, chunk_size, overlap) ==
    IF i > Len(splits) THEN <<>>
    ELSE page_chunks(i, splits[i], chunk_size, overlap)
            \o ChunksFrom(splits, i + 1, chunk_size, overlap)

\* get_text_chunks on a processor whose text is set: range() raises ValueError
\* for a step of 0, reached when a split is longer than chunk_size characters.
get_text_chunks_of(text, chunk_size, overlap) ==
    LET splits == page_splits(text)
    IN  IF chunk_size - overlap = 0 /\ \E i \in 1..Len(splits) : splits[i].nchars > chunk_size
            THEN [status |-> "raise", value |-> <<>>]
            ELSE [status |-> "ok", value |-> ChunksFrom(splits, 1, chunk_size, overlap)]

(***************************************************************************)
(* SpecChunk: extract_text and get_text_chunks on one PDFProcessor.        *)
(***************************************************************************)
InitChunk ==
    /\ doc \in Docs
    /\ pdf = NoPdf
    /\ ret = NoRet
    /\ vs = NewVectorStore
    /\ files = [index |-> AbsentFile, data |-> AbsentFile]
    /\ engine = [gemini_available |-> TRUE]
    /\ saved = FALSE
    /\ sess = NoSess
    /\ built = FALSE
    /\ chat = NoChat
    /\ db = NoDb

\* How far the reader can get: any number of pages, all of them only if the file exists.
ReadUpTo(d) == IF d.exists THEN 0..Len(d.pages) ELSE {0}

extract_text ==
    \E okUpTo \in ReadUpTo(doc) :
        /\ Ready
        /\ Len(pdf.pages) + okUpTo <= MaxHeld
        /\ LET r == extract_text_on(pdf, doc, okUpTo)
           IN  /\ pdf' = r.pdf
               /\ ret' = [op |-> "extract_text", status |-> "ok", value |-> r.value]
        /\ UNCHANGED <<vs, files, engine, saved, doc, sess, built, chat, db>>

\* get_text_chunks(chunk_size, overlap): extracts first when self.text is empty.
get_text_chunks ==
    \E args \in ChunkArgs, okUpTo \in ReadUpTo(doc) :
        /\ Ready
        /\ pdf.text # <<>> => okUpTo = 0
        /\ pdf.text = <<>> => Len(pdf.pages) + okUpTo <= MaxHeld
        /\ LET p == IF pdf.text = <<>> THEN extract_text_on(pdf, doc, okUpTo).pdf ELSE pdf
               r == get_text_chunks_of(p.text, args.chunk_size, args.overlap)
           IN  /\ pdf' = p
               /\ ret' = [op |-> "get_text_chunks", status |-> r.status,
                          value |-> r.value, args |-> args, text |-> p.text]
        /\ UNCHANGED <<vs, files, engine, saved, doc, sess, built, chat, db>>

NextChunk ==
    \/ Return
    \/ extract_text
    \/ get_text_chunks

SpecChunk == InitChunk /\ [][NextChunk]_vars

(***************************************************************************)
(* SpecInit: initialize_system (app.py), run by NSessions sessions over    *)
(* the one store path.  A run is a sequence of steps, one per call that    *)
(* reads or writes the disk or a collaborator, so that runs interleave.    *)
(* The function's try/except turns every exception into st.error and a     *)
(* return of False.                                                        *)
(***************************************************************************)
NSessions == 2       \* sessions that run initialize_system

Sessions == 1..NSessions

\* A session before its run: the locals of initialize_system, what the run
\* returned ("none" while it runs), the st.session_state fields it sets, and
\* observations of the run: what load returned, the state of the artifacts load
\* found, whether a completed save stood untouched then, the build steps done.
NewSession ==
    [pc |-> "idle",
     vector_store |-> NewVectorStore,
     text |-> <<>>,
     chunks |-> <<>>,
     result |-> "none",
     error |-> "none",
     rag_engine |-> FALSE,
     pdf_processed |-> FALSE,
     load |-> "none",
     found |-> "none",
     afterBuild |-> FALSE,
     did |-> {}]

\* The documents initialize_system meets: none, one without pages, and two with.
InitDocs ==
    {NoDoc, PresentDoc(<<>>), PresentDoc(<<ShortPage(1)>>),
     PresentDoc(<<ShortPage(2), ShortPage(0)>>)}

InitInit ==
    /\ doc \in InitDocs
    /\ sess = [s \in Sessions |-> NewSession]
    /\ files = [index |-> AbsentFile, data |-> AbsentFile]
    /\ built = FALSE
    /\ vs = NewVectorStore
    /\ engine = [gemini_available |-> TRUE]
    /\ ret = NoRet
    /\ saved = FALSE
    /\ pdf = NoPdf
    /\ chat = NoChat
    /\ db = NoDb

InitUnchanged == UNCHANGED <<vs, engine, ret, saved, pdf, doc, chat, db>>

\* A failure path that has already stored the session state.
Failed_after_session_state(r, message) ==
    [r EXCEPT !.pc = "done", !.result = "False", !.error = message,
              !.pdf_processed = TRUE]

\* The run ends: st.error(...) and return False; the except clause's message
\* ends with str(e), here the call that raised.
Failed(r, message) == [r EXCEPT !.pc = "done", !.result = "False", !.error = message]

\* What a load would meet on disk.
ArtifactsFound(f) ==
    IF f.index.state = "absent" \/ f.data.state = "absent" THEN "missing"
    ELSE IF f.index.state = "malformed" \/ f.data.state = "malformed" THEN "malformed"
    ELSE "intact"

\* The string a chunk is: f"Page {i}: {chunk}", the chunk being words from..to of the split.
ChunkText(c) == <<"Page", ToString(c.label), ":", ToString(c.from), ToString(c.to)>>

\* Lines 209-218: the document check and VectorStore(EMBEDDING_MODEL).
IS_Start(s) ==
    /\ sess[s].pc = "idle"
    /\ sess' = [sess EXCEPT ![s] =
                    IF ~doc.exists THEN Failed(@, "MOSDAC.pdf not found")
                    ELSE [@ EXCEPT !.pc = "load", !.vector_store = NewVectorStore]]
    /\ UNCHANGED <<files, built>>
    /\ InitUnchanged

\* Line 218: loaded = vector_store.load(str(vs_path)).
IS_Load(s) ==
    /\ sess[s].pc = "load"
    /\ LET r == load_from(sess[s].vector_store, files)
           seen == [sess[s] EXCEPT !.found = ArtifactsFound(files),
                                   !.afterBuild = built,
                                   !.vector_store = r.store]
       IN  sess' = [sess EXCEPT ![s] =
                        IF r.status = "raise"
                            THEN Failed([seen EXCEPT !.load = "raise"],
                                        "Error initializing system: load")
                        ELSE IF r.value
                            THEN [seen EXCEPT !.load = "True", !.pc = "engine"]
                        ELSE [seen EXCEPT !.load = "False", !.pc = "extract"]]
    /\ UNCHANGED <<files, built>>
    /\ InitUnchanged

\* Lines 222-227: PDFProcessor(pdf_path).extract_text().
IS_Extract(s) ==
    /\ sess[s].pc = "extract"
    /\ \E okUpTo \in ReadUpTo(doc) :
        LET text == extract_text_on(NoPdf, doc, okUpTo).value
            r == [sess[s] EXCEPT !.text = text, !.did = @ \cup {"extract"}]
        IN  sess' = [sess EXCEPT ![s] =
                        IF text = <<>>
                            THEN Failed(r, "Failed to extract text from PDF.")
                            ELSE [r EXCEPT !.pc = "chunk"]]
    /\ UNCHANGED <<files, built>>
    /\ InitUnchanged

\* Line 230: chunks = pdf_processor.get_text_chunks(CHUNK_SIZE, CHUNK_OVERLAP).
IS_Chunk(s) ==
    /\ sess[s].pc = "chunk"
    /\ LET c == get_text_chunks_of(sess[s].text, CHUNK_SIZE, CHUNK_OVERLAP)
           r == [sess[s] EXCEPT !.did = @ \cup {"chunk"}]
       IN  sess' = [sess EXCEPT ![s] =
                        IF c.status = "raise"
                            THEN Failed(r, "Error initializing system: get_text_chunks")
                            ELSE [r EXCEPT !.pc = "add_texts", !.chunks = c.value]]
    /\ UNCHANGED <<files, built>>
    /\ InitUnchanged

\* Line 233: vector_store.add_texts(chunks).
IS_AddTexts(s) ==
    /\ sess[s].pc = "add_texts"
    /\ \E encodeOk \in BOOLEAN :
        LET texts == [i \in 1..Len(sess[s].chunks) |-> ChunkText(sess[s].chunks[i])]
            r == [sess[s] EXCEPT !.did = @ \cup {"add_texts"}]
        IN  sess' = [sess EXCEPT ![s] =
                        IF encodeOk
                            THEN [r EXCEPT !.pc = "save_index",
                                           !.vector_store = add_texts_on(@, texts, <<>>)]
                            ELSE Failed(r, "Error initializing system: add_texts")]
    /\ UNCHANGED <<files, built>>
    /\ InitUnchanged

\* Line 235, vector_store.save: faiss.write_index, when self.index is not None.
IS_SaveIndex(s) ==
    /\ sess[s].pc = "save_index"
    /\ IF sess[s].vector_store.index.none
        THEN /\ sess' = [sess EXCEPT ![s].pc = "engine"]
             /\ UNCHANGED files
        ELSE /\ sess' = [sess EXCEPT ![s].pc = "save_data", ![s].did = @ \cup {"save"}]
             /\ files' = [files EXCEPT !.index = write_index(sess[s].vector_store.index)]
    /\ UNCHANGED built
    /\ InitUnchanged

\* Line 235, vector_store.save: pickle.dump to the .data file.
IS_SaveData(s) ==
    /\ sess[s].pc = "save_data"
    /\ sess' = [sess EXCEPT ![s].pc = "engine"]
    /\ files' = [files EXCEPT !.data = pickle_dump(sess[s].vector_store)]
    /\ built' = (files.index.state = "ok")
    /\ InitUnchanged

\* Lines 238-245: RAGEngine(vector_store), whose SentenceTransformer(...) may
\* raise, and the session state.
IS_Engine(s) ==
    /\ sess[s].pc = "engine"
    /\ \E modelOk \in BOOLEAN :
        sess' = [sess EXCEPT ![s] =
                    IF modelOk
                        THEN [@ EXCEPT !.pc = "done", !.result = "True",
                                       !.rag_engine = TRUE, !.pdf_processed = TRUE]
                        ELSE Failed(@, "Error initializing system: RAGEngine")]
    /\ UNCHANGED <<files, built>>
    /\ InitUnchanged

\* A later session takes the place of one whose run has ended.
IS_NewSession(s) ==
    /\ sess[s].pc = "done"
    /\ sess' = [sess EXCEPT ![s] = NewSession]
    /\ UNCHANGED <<files, built>>
    /\ InitUnchanged

\* The environment damages or removes one artifact.
Damage ==
    \E which \in {"index", "data"}, to \in {AbsentFile, MalformedFile} :
        /\ files[which].state = "ok"
        /\ files' = [files EXCEPT ![which] = to]
        /\ built' = FALSE
        /\ UNCHANGED sess
        /\ InitUnchanged

NextInit ==
    \/ \E s \in Sessions :
        \/ IS_Start(s)
        \/ IS_Load(s)
        \/ IS_Extract(s)
        \/ IS_Chunk(s)
        \/ IS_AddTexts(s)
        \/ IS_SaveIndex(s)
        \/ IS_SaveData(s)
        \/ IS_Engine(s)
        \/ IS_NewSession(s)
    \/ Damage

SpecInit == InitInit /\ [][NextInit]_vars

(***************************************************************************)
(* The chat page of one browser session (SpecChat).  A step is one run of  *)
(* the script for the session: the run a submitted prompt or a pressed     *)
(* button starts, or the run st.rerun() asks for, which follows at once.   *)
(***************************************************************************)
MaxMessages == 4       \* most messages the session keeps before the user stops asking
InitCallsCounted == 2  \* calls of initialize_system counted apart (2 stands for more)

\* query's default k
DefaultK == 6

SystemNotReady == <<"System not ready. Ensure MOSDAC.pdf exists and API key is set.">>

\* st.chat_input returned nothing in this run.
NoPrompt == <<>>

\* The prompts typed: a weather question and another one.
Prompts == {QRain, T1}

\* The stores initialize_system leaves in the session when it succeeds.
SessionStores ==
    {add_texts_on(NewVectorStore, <<T1>>, <<>>),
     add_texts_on(NewVectorStore, <<T1, T2>>, <<>>)}

\* rag_engine.query(user_message): what it can return, or that it raises.
query_outcomes(store, e, question) ==
    UNION {{query_run(e, question, outs, sr) :
                outs \in [1..MaxCalls -> GenOutcomes],
                sr \in search_results(store, question, DefaultK, encodeOk)} :
           encodeOk \in BOOLEAN}

\* A Chat tab that marks the session initialized only when initialize_system
\* succeeded.
chat_tab_retrying(c, initOk) ==
    IF ~c.initialized
        THEN [c EXCEPT !.initialized = initOk,
                       !.rag_engine = initOk,
                       !.init_calls = Min(@ + 1, InitCallsCounted),
                       !.init_failed = ~initOk]
        ELSE c

\* main, "with tab1": initialize_system is called when the session is not
\* initialized, and the session is marked initialized whatever it returned.
\* initOk: initialize_system stored a RAGEngine in the session.
chat_tab_init(c, initOk) ==
    IF ~c.initialized
        THEN [c EXCEPT !.initialized = TRUE,
                       !.rag_engine = initOk,
                       !.init_calls = Min(@ + 1, InitCallsCounted),
                       !.init_failed = ~initOk]
        ELSE c

LastMessage(c) == c.messages[Len(c.messages)]

\* The text query is called with, when the last message is the user's.
user_message(c) == IF c.messages = <<>> THEN <<>> ELSE LastMessage(c).content

\* An answering block that logs the exchange with log_chat before it shows the
\* response; log_chat raises again what it could not write.
respond_logging(c, q, logOk) ==
    IF c.messages # <<>> /\ LastMessage(c).role = "user"
        THEN IF (c.rag_engine /\ q.status = "raise") \/ ~logOk
                THEN [chat |-> c, status |-> "raise", processed |-> TRUE,
                      answered |-> FALSE, log_calls |-> IF c.rag_engine /\ q.status = "raise" THEN 0 ELSE 1]
                ELSE [chat |-> [c EXCEPT !.messages =
                                    Append(@, [role |-> "assistant",
                                               content |-> IF c.rag_engine
                                                             THEN q.value.response
                                                             ELSE SystemNotReady])],
                      status |-> "ok", processed |-> TRUE, answered |-> TRUE,
                      log_calls |-> 1]
        ELSE [chat |-> c, status |-> "ok", processed |-> FALSE, answered |-> FALSE,
              log_calls |-> 0]

\* display_chat_interface, the block "if there's a new message": the last
\* message, when it is the user's, is answered by rag_engine.query or by the
\* "System not ready" text, and the answer is appended.  query raising ends
\* the run with nothing appended.  log_chat is imported by app.py and called
\* nowhere: logOk (whether a call of it would complete) has no effect.
respond(c, q, logOk) ==
    IF c.messages # <<>> /\ LastMessage(c).role = "user"
        THEN IF c.rag_engine /\ q.status = "raise"
                THEN [chat |-> c, status |-> "raise", processed |-> TRUE,
                      answered |-> FALSE, log_calls |-> 0]
                ELSE [chat |-> [c EXCEPT !.messages =
                                    Append(@, [role |-> "assistant",
                                               content |-> IF c.rag_engine
                                                             THEN q.value.response
                                                             ELSE SystemNotReady])],
                      status |-> "ok", processed |-> TRUE, answered |-> TRUE,
                      log_calls |-> 0]
        ELSE [chat |-> c, status |-> "ok", processed |-> FALSE, answered |-> FALSE,
              log_calls |-> 0]

\* display_chat_interface: a submitted prompt is appended and the script is
\* rerun; a run without a prompt answers the last message.
display_chat_interface(c, prompt, q, logOk) ==
    IF prompt # NoPrompt
        THEN [chat |-> [c EXCEPT !.messages = Append(@, [role |-> "user", content |-> prompt]),
                                 !.rerun = TRUE],
              status |-> "rerun", processed |-> FALSE, answered |-> FALSE,
              log_calls |-> 0]
        ELSE respond(c, q, logOk)

InitChat ==
    /\ vs = NewVectorStore
    /\ files = [index |-> AbsentFile, data |-> AbsentFile]
    /\ engine = [gemini_available |-> TRUE]
    /\ ret = NoRet
    /\ saved = FALSE
    /\ Idle

ChatUnchanged == UNCHANGED <<files, saved, doc, pdf, sess, built, db>>

\* The login page's submit, when authenticate_user accepted the credentials.
LogIn ==
    /\ Ready
    /\ ~chat.logged_in /\ ~chat.rerun
    /\ chat' = [chat EXCEPT !.logged_in = TRUE, !.rerun = TRUE]
    /\ UNCHANGED <<vs, engine, ret>>
    /\ ChatUnchanged

\* The run st.rerun() asked for after Sign Out: main shows the login page.
LoginPageRun ==
    /\ Ready
    /\ ~chat.logged_in /\ chat.rerun
    /\ chat' = [chat EXCEPT !.rerun = FALSE]
    /\ UNCHANGED <<vs, engine, ret>>
    /\ ChatUnchanged

\* The sidebar's "Sign Out" button
SignOut ==
    /\ Ready
    /\ chat.logged_in /\ ~chat.rerun
    /\ chat' = [chat EXCEPT !.logged_in = FALSE, !.messages = <<>>, !.rerun = TRUE]
    /\ UNCHANGED <<vs, engine, ret>>
    /\ ChatUnchanged

\* The sidebar's "Clear Chat History" button
ClearChat ==
    /\ Ready
    /\ chat.logged_in /\ ~chat.rerun
    /\ chat' = [chat EXCEPT !.messages = <<>>, !.rerun = TRUE]
    /\ UNCHANGED <<vs, engine, ret>>
    /\ ChatUnchanged

\* query is not called in this run.
NoQuery == [op |-> "query", status |-> "ok", value |-> NoValue]

\* A run of main that reaches the Chat tab, with the prompt submitted (none in
\* the run st.rerun() asked for).  In the run that calls initialize_system,
\* initOk is whether it succeeded, store and gem what it then leaves in the
\* session.  query is called when the run answers a message with the engine.
ChatRun ==
    /\ Ready
    /\ chat.logged_in
    /\ \E prompt \in Prompts \cup {NoPrompt}, logOk \in BOOLEAN,
          initOk \in (IF chat.initialized THEN {chat.rag_engine} ELSE BOOLEAN),
          store \in (IF chat.initialized THEN {vs} ELSE SessionStores),
          gem \in (IF chat.initialized THEN {engine.gemini_available} ELSE BOOLEAN) :
        /\ chat.rerun => prompt = NoPrompt
        /\ prompt # NoPrompt => Len(chat.messages) < MaxMessages
        /\ LET first == ~chat.initialized
               c1 == chat_tab_init([chat EXCEPT !.rerun = FALSE], initOk)
               vs1 == IF first /\ initOk THEN store ELSE vs
               e1 == IF first /\ initOk THEN [gemini_available |-> gem] ELSE engine
               asks == /\ prompt = NoPrompt /\ c1.rag_engine
                       /\ c1.messages # <<>> /\ LastMessage(c1).role = "user"
           IN  \E q \in (IF asks THEN query_outcomes(vs1, e1, user_message(c1))
                                  ELSE {NoQuery}) :
                 LET d == display_chat_interface(c1, prompt, q, logOk)
                 IN  /\ chat' = d.chat
                     /\ vs' = vs1
                     /\ engine' = e1
                     /\ ret' = [op |-> "chat_run", status |-> d.status,
                                prompt |-> prompt, processed |-> d.processed,
                                answered |-> d.answered, log_calls |-> d.log_calls,
                                log_ok |-> logOk,
                                query_raised |-> d.processed /\ c1.rag_engine
                                                    /\ q.status = "raise"]
    /\ ChatUnchanged

NextChat ==
    \/ Return
    \/ LogIn
    \/ LoginPageRun
    \/ SignOut
    \/ ClearChat
    \/ ChatRun

SpecChat == InitChat /\ [][NextChat]_vars

(***************************************************************************)
(* The users table of users.db (SpecAuth).  A row is its username, email,  *)
(* password_hash, is_admin, is_active and whether last_login is set; ids,  *)
(* timestamps and the activity log are left out.  A call is one            *)
(* transaction: what it did not commit is rolled back.                     *)
(***************************************************************************)
DigitChars == {"0", "1", "2", "3", "4", "5", "6", "7", "8", "9"}

Letters == Range(LowerCase) \cup Range(UpperCase)

AllIn(str, chars) == \A i \in 1..Len(str) : str[i] \in chars

\* re.match of ^[a-zA-Z0-9._%+-]+@[a-zA-Z0-9.-]+\.[a-zA-Z]{2,}$ : the pattern's $
\* also matches before a newline that ends the string.
validate_email(email) ==
    \E body \in {email} \cup (IF email # <<>> /\ email[Len(email)] = "\n"
                                THEN {SubSeq(email, 1, Len(email) - 1)} ELSE {}) :
        \E i \in 2..Len(body) :
            \E j \in (i + 2)..(Len(body) - 2) :
                /\ body[i] = "@"
                /\ body[j] = "."
                /\ AllIn(SubSeq(body, 1, i - 1), Letters \cup DigitChars \cup {".", "_", "%", "+", "-"})
                /\ AllIn(SubSeq(body, i + 1, j - 1), Letters \cup DigitChars \cup {".", "-"})
                /\ AllIn(SubSeq(body, j + 1, Len(body)), Letters)

\* len(username) >= 3 and len(username) <= 20 and username.isalnum()
validate_username(username) ==
    /\ Len(username) >= 3
    /\ Len(username) <= 20
    /\ AllIn(username, Letters \cup DigitChars)

\* len(password) >= 6
validate_password(password) == Len(password) >= 6

\* hashlib.sha256(password.encode()).hexdigest(): the digest stands for the
\* password it was computed from.
hash_password(password) == [sha256 |-> password]

admin_username == <<"a", "d", "m", "i", "n">>
admin_email == <<"a", "d", "m", "i", "n", "@", "e", "x", "a", "m", "p", "l", "e", ".", "c", "o", "m">>
admin_password == <<"a", "d", "m", "i", "n", "1", "2", "3">>

bhumi_username == <<"b", "h", "u", "m", "i">>
bhumi_email == <<"b", "h", "u", "m", "i", "@", "e", "x", "a", "m", "p", "l", "e", ".", "c", "o", "m">>
bhumi_password == <<"B", "h", "u", "m", "i", "@", "2", "3">>

\* The rows init_database inserts: is_admin 1, is_active 1, last_login NULL.
AdminRow ==
    [username |-> admin_username, email |-> admin_email,
     password_hash |-> hash_password(admin_password),
     is_admin |-> 1, is_active |-> 1, last_login |-> FALSE]

BhumiRow ==
    [username |-> bhumi_username, email |-> bhumi_email,
     password_hash |-> hash_password(bhumi_password),
     is_admin |-> 1, is_active |-> 1, last_login |-> FALSE]

\* username TEXT UNIQUE, email TEXT UNIQUE: the row can be inserted.
unique_ok(users, row) ==
    \A u \in users : u.username # row.username /\ u.email # row.email

\* An INSERT of the row without the DELETE before it.
insert_without_delete(users, row) ==
    IF unique_ok(users, row)
        THEN [status |-> "ok", users |-> users \cup {row}]
        ELSE [status |-> "raise", users |-> users]

\* DELETE FROM users WHERE username = ?, then INSERT INTO users: sqlite3 raises
\* IntegrityError when another row holds the email.
delete_and_insert(users, row) ==
    LET kept == {u \in users : u.username # row.username}
    IN  IF unique_ok(kept, row)
            THEN [status |-> "ok", users |-> kept \cup {row}]
            ELSE [status |-> "raise", users |-> users]

\* init_database: the tables are created if they do not exist; admin and bhumi
\* are deleted and inserted again in one transaction, rolled back on an error,
\* which is raised again.
init_database_on(d) ==
    LET a == delete_and_insert(d.users, AdminRow)
        b == delete_and_insert(a.users, BhumiRow)
    IN  IF a.status = "ok" /\ b.status = "ok"
            THEN [status |-> "ok", db |-> [tables |-> TRUE, users |-> b.users]]
            ELSE [status |-> "raise", db |-> [tables |-> TRUE, users |-> d.users]]

\* register_user(username, email, password): the (success, message) pair
\* returned and the table after the call.
register_user_on(d, username, email, password) ==
    IF username = <<>> \/ email = <<>> \/ password = <<>>
        THEN [db |-> d, value |-> <<FALSE, "All fields are required">>]
    ELSE IF ~validate_email(email)
        THEN [db |-> d, value |-> <<FALSE, "Invalid email format">>]
    ELSE IF ~validate_username(username)
        THEN [db |-> d, value |-> <<FALSE, "Username must be 3-20 characters long and alphanumeric">>]
    ELSE IF ~validate_password(password)
        THEN [db |-> d, value |-> <<FALSE, "Password must be at least 6 characters long">>]
    ELSE IF ~d.tables
        THEN [db |-> d, value |-> <<FALSE, "An error occurred: no such table: users">>]
    ELSE IF \E u \in d.users : u.username = username \/ u.email = email
        THEN [db |-> d, value |-> <<FALSE, "Username or email already exists">>]
    ELSE [db |-> [d EXCEPT !.users = @ \cup
                    {[username |-> username, email |-> email,
                      password_hash |-> hash_password(password),
                      is_admin |-> 0, is_active |-> 1, last_login |-> FALSE]}],
          value |-> <<TRUE, "User registration successful!">>]

\* authenticate_user(username, password): success, message, and the table after
\* the call (last_login is set on success).
authenticate_user_on(d, username, password) ==
    IF username = <<>> \/ password = <<>>
        THEN [db |-> d, value |-> <<FALSE, "Username and password are required">>]
    ELSE IF ~d.tables
        THEN [db |-> d, value |-> <<FALSE, "Database error: no such table: users">>]
    ELSE IF \A u \in d.users : u.username # username
        THEN [db |-> d, value |-> <<FALSE, "Invalid username or password">>]
    ELSE LET user == CHOOSE u \in d.users : u.username = username
         IN  IF user.password_hash # hash_password(password)
                THEN [db |-> d, value |-> <<FALSE, "Invalid username or password">>]
                ELSE [db |-> [d EXCEPT !.users = (@ \ {user})
                                \cup {[user EXCEPT !.last_login = TRUE]}],
                      value |-> <<TRUE, "Login successful">>]

\* The names, addresses and passwords typed into the forms.
Eve == <<"e", "v", "e">>
EveEmail == <<"e", "@", "x", ".", "i", "o">>

Usernames == {admin_username, bhumi_username, Eve, <<"a", "b">>}

Emails == {admin_email, bhumi_email, EveEmail, admin_email \o <<"\n">>, Eve}

Passwords == {admin_password, <<"s", "e", "c", "r", "e", "t">>, <<"a", "b", "c">>}

InitAuth ==
    /\ vs = NewVectorStore
    /\ files = [index |-> AbsentFile, data |-> AbsentFile]
    /\ engine = [gemini_available |-> TRUE]
    /\ ret = NoRet
    /\ saved = FALSE
    /\ Idle

AuthUnchanged == UNCHANGED <<vs, files, engine, saved, doc, pdf, sess, built, chat>>

\* init_database(), at the import of auth and in test_db.py
init_database ==
    /\ Ready
    /\ LET r == init_database_on(db)
       IN  /\ db' = r.db
           /\ ret' = [op |-> "init_database", status |-> r.status, before |-> db]
    /\ AuthUnchanged

register_user ==
    /\ Ready
    /\ \E username \in Usernames, email \in Emails, password \in Passwords :
        LET r == register_user_on(db, username, email, password)
        IN  /\ db' = r.db
            /\ ret' = [op |-> "register_user", status |-> "ok", value |-> r.value,
                       username |-> username, email |-> email]
    /\ AuthUnchanged

authenticate_user ==
    /\ Ready
    /\ \E username \in Usernames, password \in Passwords :
        LET r == authenticate_user_on(db, username, password)
        IN  /\ db' = r.db
            /\ ret' = [op |-> "authenticate_user", status |-> "ok", value |-> r.value,
                       username |-> username]
    /\ AuthUnchanged

\* test_db.py: os.remove('users.db')
RemoveDb ==
    /\ Ready
    /\ db # NoDb
    /\ db' = NoDb
    /\ UNCHANGED ret
    /\ AuthUnchanged

NextAuth ==
    \/ Return
    \/ init_database
    \/ register_user
    \/ authenticate_user
    \/ RemoveDb

SpecAuth == InitAuth /\ [][NextAuth]_vars

(***************************************************************************)
(* Claims about RAGEngine.query (SpecRAG).                                 *)
(***************************************************************************)
\* C1: whenever the generative model is unavailable or some generate_content
\* call raised, query does not raise and the 'response' of the dict it returns
\* is a non-empty string.
C1_QueryAnswersDespiteProvider ==
    (ret.op = "query" /\ (~engine.gemini_available \/ ret.raised > 0))
        => (ret.status = "ok" /\ ret.value.response # <<>>)

\* C2: for a question is_weather_query matches, query never calls
\* vector_store.search and returns num_docs_retrieved = 0 and relevant_docs = [],
\* whatever the generative model does.
C2_WeatherSkipsRetrieval ==
    (ret.op = "query" /\ ret.weather)
        => /\ ret.searches = 0
           /\ ret.status = "ok"
           /\ ret.value.num_docs_retrieved = 0
           /\ ret.value.relevant_docs = <<>>

\* C5: on the retrieval path the prompt generate_response sends to the
\* generative model holds the question and every retrieved passage.
C5_PromptHoldsContext ==
    (ret.op = "query" /\ ret.status = "ok" /\ ret.searches = 1)
        => \A i \in 1..Len(ret.prompts) :
              ret.prompts[i].template = "generate"
                => /\ ret.value.question \in Range(ret.prompts[i].parts)
                   /\ Range(ret.found) \subseteq Range(ret.prompts[i].parts)

\* C16: when vector_store.search raises during a query that reaches retrieval
\* for a question that is not a weather question, query still returns a dict.
C16_QueryReturnsWhenSearchRaises ==
    (ret.op = "query" /\ ~ret.weather /\ ret.searches = 1)
        => ret.status = "ok"

\* C17: for a question that is not a weather question, when every candidate
\* passage scores below the threshold (construct_detailed_answer gives the
\* canonical answer for them), the response of query is exactly that answer.
C17_NotFoundBelowThreshold ==
    (/\ ret.op = "query" /\ ret.status = "ok" /\ ~ret.weather
     /\ construct_detailed_answer(ret.value.question, ret.found) = NotFoundResponse)
        => ret.value.response = NotFoundResponse

\* C26: in the answer construct_detailed_answer combines, no included sentence
\* is, case ignored, a substring of another included sentence, in whatever
\* order of relevance the sentences come.
C26_NoIncludedSentenceInsideAnother ==
    ret.op = "construct_detailed_answer"
        => \A i, j \in 1..Len(ret.included) :
              i # j => ~Contains(Lower(ret.included[j]), Lower(ret.included[i]))

\* C23: no call of query, on any path, changes the VectorStore: the index,
\* texts and metadata are after the call what they were before it.
C23_QueryLeavesStore ==
    [][ret'.op = "query" => vs' = vs]_vars

\* A query that reached retrieval found a passage in a store of two entries.
C23_Witness ==
    /\ ret.op = "query" /\ ret.searches = 1 /\ ret.status = "ok"
    /\ Len(ret.found) >= 1
    /\ Len(vs.texts) = 2 /\ Len(vs.index.xb) = 2

\* C27: one query sends at most 3 prompts to generate_content for a weather
\* question and at most 2 for any other, and none when gemini_available is
\* False.
C27_GenerateCallsBounded ==
    ret.op = "query"
        => /\ Len(ret.prompts) <= (IF ret.weather THEN 3 ELSE 2)
           /\ ~engine.gemini_available => Len(ret.prompts) = 0

\* A weather question whose three calls all raised: the weather call,
\* generate_response's and the fallback's.
C27_Witness ==
    /\ ret.op = "query" /\ ret.weather
    /\ Len(ret.prompts) = 3 /\ ret.raised = 3
    /\ ret.value.response = CannedResponse

(***************************************************************************)
(* Claims about the VectorStore (Spec, SpecDisk).                          *)
(***************************************************************************)
\* C3: after any sequence of create_index, add_texts and load calls the index
\* holds as many vectors as there are texts and as there are metadata records.
C3_ParallelContainers ==
    /\ Len(vs.index.xb) = Len(vs.texts)
    /\ Len(vs.texts) = Len(vs.metadata)

\* The store holds n >= 1 entries: a vector, a text and a metadata record each.
HoldsEntries(s, n) ==
    /\ n >= 1
    /\ ~s.index.none
    /\ Len(s.index.xb) = n /\ Len(s.texts) = n /\ Len(s.metadata) = n

\* C4: search(query, k) on a store of n >= 1 entries returns exactly min(k, n)
\* results, each read from a different stored entry.
C4_SearchReturnsMinKN ==
    (ret.op = "search" /\ ret.status = "ok" /\ HoldsEntries(vs, Len(vs.texts)))
        => /\ Len(ret.value) = Min(ret.k, Len(vs.texts))
           /\ \A i, j \in 1..Len(ret.entries) :
                 i # j => ret.entries[i] # ret.entries[j]

\* C7: save(path) then load(path) on a fresh store returns True and the fresh
\* store holds the same vectors, texts and metadata in the same order, so every
\* search on it returns what the same search returns on the saved store.
C7_SaveLoadRoundTrip ==
    (ret.op = "load" /\ ret.fresh /\ saved)
        => /\ ret.status = "ok"
           /\ ret.value = TRUE
           /\ ret.store.index = vs.index
           /\ ret.store.texts = vs.texts
           /\ ret.store.metadata = vs.metadata
           /\ \A q \in Questions, k \in 1..MaxK :
                 search_results(ret.store, q, k, TRUE) = search_results(vs, q, k, TRUE)

\* A fresh store has loaded a saved store of two different texts, one with
\* metadata and one without.
C7_Witness ==
    /\ ret.op = "load" /\ ret.fresh /\ saved
    /\ Len(vs.texts) = 2 /\ vs.texts[1] # vs.texts[2]
    /\ vs.metadata[1] # vs.metadata[2]
    /\ Len(ret.store.texts) = 2

\* C13: after create_index the store holds no vector, no text and no metadata
\* record, and every search on it returns the empty list.
C13_CreateIndexDiscards ==
    ret.op = "create_index"
        => /\ vs.index.xb = <<>> /\ vs.texts = <<>> /\ vs.metadata = <<>>
           /\ \A q \in Questions, k \in 1..MaxK :
                 \A r \in search_results(vs, q, k, TRUE) : r.status = "ok" /\ r.value = <<>>

Consistent(f) ==
    /\ f.index.state = "ok" /\ f.data.state = "ok"
    /\ Len(f.index.xb) = Len(f.data.texts)
    /\ Len(f.data.texts) = Len(f.data.metadata)

\* C15: load returns True only when both artifacts are present and hold as many
\* vectors as texts and metadata records; with an artifact missing it returns
\* False.
C15_LoadTrueOnlyIfConsistent ==
    ret.op = "load"
        => /\ (ret.status = "ok" /\ ret.value = TRUE) => Consistent(files)
           /\ (files.index.state = "absent" \/ files.data.state = "absent")
                => (ret.status = "ok" /\ ret.value = FALSE)

\* C21: the list search returns is sorted by non-increasing score.
C21_SearchSortedByScore ==
    (ret.op = "search" /\ ret.status = "ok")
        => \A i, j \in 1..Len(ret.value) :
              i < j => ret.value[i].score >= ret.value[j].score

\* A search returned two entries of different scores.
C21_Witness ==
    /\ ret.op = "search" /\ ret.status = "ok"
    /\ Len(ret.value) = 2
    /\ ret.value[1].score > ret.value[2].score
    /\ ret.entries[1] # ret.entries[2]

\* The store holds nothing: no vector, no text, no metadata record.
NoEntries(s) == s.index.xb = <<>> /\ s.texts = <<>> /\ s.metadata = <<>>

\* C22: on a store that holds no entries (index never created, index created
\* and nothing added, or the store a load that returned False left) search
\* returns the empty list for every query and k > 0, the embedding model
\* failing or not.
C22_SearchEmptyStore ==
    /\ NoEntries(vs)
        => \A q \in Questions, k \in 1..MaxK, encodeOk \in BOOLEAN :
              \A r \in search_results(vs, q, k, encodeOk) :
                 r.status = "ok" /\ r.value = <<>>
    /\ (ret.op = "load" /\ ret.status = "ok" /\ ret.value = FALSE /\ NoEntries(ret.store))
        => \A q \in Questions, k \in 1..MaxK, encodeOk \in BOOLEAN :
              \A r \in search_results(ret.store, q, k, encodeOk) :
                 r.status = "ok" /\ r.value = <<>>

\* load returned False on a store whose index was created and to which nothing
\* was added, one artifact being on disk and the other not.
C22_Witness ==
    /\ ret.op = "load" /\ ret.status = "ok" /\ ret.value = FALSE /\ ~ret.fresh
    /\ ~vs.index.none /\ NoEntries(vs)
    /\ files.index.state = "ok" /\ files.data.state = "absent"

\* C30: a load that fails partway leaves the store's index, texts and metadata
\* as they were before the call (here a fresh store, which held nothing).
C30_FailedLoadLeavesStore ==
    (ret.op = "load" /\ ret.fresh /\ ret.status = "raise")
        => ret.store = NewVectorStore

(***************************************************************************)
(* Claims about get_text_chunks (SpecChunk).                               *)
(***************************************************************************)
\* The chunks of the list that carry the label of page i.
ChunksOfPage(cs, i) == SelectSeq(cs, LAMBDA c : c.label = i)

CeilDiv(a, b) == (a + b - 1) \div b

\* C9: a page of fewer than chunk_size words yields exactly 1 chunk and a page of
\* n > chunk_size words yields ceil((n - chunk_size)/(chunk_size - overlap)) + 1
\* chunks (1 chunk for 10 words and 3 chunks for 2500 words at 1000/200).
C9_ChunkCount ==
    (ret.op = "get_text_chunks" /\ ret.status = "ok" /\ ret.args.overlap < ret.args.chunk_size)
        => \A i \in 1..Len(ret.text) :
              LET n == ret.text[i].text.nwords
                  size == ret.args.chunk_size
                  step == ret.args.chunk_size - ret.args.overlap
                  count == Len(ChunksOfPage(ret.value, i))
              IN  /\ n < size => count = 1
                  /\ n > size => count = CeilDiv(n - size, step) + 1

\* Two chunks that follow one another in the list and carry the same label
\* share the words from the later one's first to the earlier one's last.
SharedWords(a, b) == IF a.to >= b.from THEN a.to - b.from + 1 ELSE 0

\* C10: every chunk has at most chunk_size words, and two adjacent chunks of a
\* page share exactly overlap words, the page's final chunk excepted.
C10_ChunkOverlap ==
    (ret.op = "get_text_chunks" /\ ret.status = "ok" /\ ret.args.overlap < ret.args.chunk_size)
        => /\ \A n \in 1..Len(ret.value) :
                 ret.value[n].to - ret.value[n].from + 1 <= ret.args.chunk_size
           /\ \A n \in 1..(Len(ret.value) - 2) :
                 (/\ ret.value[n].label = ret.value[n + 1].label
                  /\ ret.value[n + 1].label = ret.value[n + 2].label)
                    => SharedWords(ret.value[n], ret.value[n + 1]) = ret.args.overlap

\* C11: get_text_chunks called with overlap >= chunk_size ends in an error for
\* every document; it never returns a list of chunks.
C11_OverlapRejected ==
    (ret.op = "get_text_chunks" /\ ret.args.overlap >= ret.args.chunk_size)
        => ret.status = "raise"

\* C12: with chunk_size > overlap, every chunk carries the number of the page
\* its words came from, labels lie in 1..N for a document of N pages, and every
\* page with text has a chunk.
C12_ChunkLabelsArePages ==
    (ret.op = "get_text_chunks" /\ ret.status = "ok" /\ ret.args.overlap < ret.args.chunk_size)
        => /\ \A n \in 1..Len(ret.value) :
                 /\ ret.value[n].label = ret.value[n].page
                 /\ ret.value[n].label \in 1..Len(ret.text)
           /\ \A i \in 1..Len(ret.text) :
                 ret.text[i].text.nwords > 0
                    => \E n \in 1..Len(ret.value) : ret.value[n].label = i

\* C20: after any calls of extract_text and get_text_chunks, self.pages holds
\* one entry per page read, in document order, page_number being the position;
\* once the document was read whole it holds exactly the document's pages.
C20_PagesOncePerDocument ==
    /\ Len(pdf.pages) <= Len(doc.pages)
    /\ \A i \in 1..Len(pdf.pages) :
          pdf.pages[i] = [page_number |-> i, text |-> doc.pages[i]]
    /\ pdf.text # <<>> => Len(pdf.pages) = Len(doc.pages)

(***************************************************************************)
(* Claims about initialize_system (SpecInit).                              *)
(***************************************************************************)
\* C6: when load finds both artifacts and one of them malformed it returns
\* False instead of raising, and the run then rebuilds the index (extract,
\* chunk, add_texts, save) and ends with a usable engine unless a later step
\* fails.
C6_MalformedArtifactRebuilds ==
    \A s \in Sessions :
        sess[s].found = "malformed"
            => /\ sess[s].load = "False"
               /\ (sess[s].pc = "done" /\ sess[s].error = "none")
                    => /\ sess[s].result = "True"
                       /\ sess[s].rag_engine
                       /\ sess[s].did = {"extract", "chunk", "add_texts", "save"}

\* C8: a run whose load comes after a run built and saved the index, the
\* artifacts untouched since, loads the persisted index and goes on to the
\* engine: it extracts nothing, chunks nothing, adds nothing and saves nothing.
C8_IndexBuiltOnce ==
    \A s \in Sessions :
        sess[s].afterBuild
            => /\ sess[s].found = "intact"
               /\ sess[s].load = "True"
               /\ sess[s].did = {}
               /\ sess[s].pc \in {"engine", "done"}
               /\ sess[s].vector_store.texts # <<>>
               /\ Len(sess[s].vector_store.index.xb) = Len(sess[s].vector_store.texts)
               /\ Len(sess[s].vector_store.metadata) = Len(sess[s].vector_store.texts)

\* A run after the build ended with the engine in the session state, having
\* loaded an index of two chunks.
C8_Witness ==
    \E s \in Sessions :
        /\ sess[s].afterBuild
        /\ sess[s].pc = "done" /\ sess[s].result = "True"
        /\ Len(sess[s].vector_store.texts) = 2

\* The steps of a run between its load and the end of its save.
BuildSteps == {"extract", "chunk", "add_texts", "save_index", "save_data"}

C19_BuildNotSerialized ==
    \A s \in Sessions :
        /\ sess[s].pc \in BuildSteps
            => (sess[s].load = "False" /\ sess[s].found = "missing")
        /\ sess[s].pc = "save_index" => ENABLED IS_SaveIndex(s)
        /\ sess[s].pc = "save_data" => ENABLED IS_SaveData(s)

\* Two runs passed the load check with no persisted index, both rebuilt, both
\* wrote the .index artifact and both are about to write the .data artifact.
C19_Witness ==
    /\ \A s \in {1, 2} :
          /\ sess[s].pc = "save_data"
          /\ sess[s].load = "False" /\ sess[s].found = "missing"
    /\ files.index.state = "ok"

C28_MessagesAlternate ==
    \A i \in 1..Len(chat.messages) :
        chat.messages[i].role = (IF i % 2 = 1 THEN "user" ELSE "assistant")

\* C29: initialize_system is called at most once in a session; once the Chat
\* tab has rendered, initialized is True whether or not initialization
\* succeeded; after a failed initialization every message processed is
\* answered, with the "System not ready" text.
C29_InitializedOnce ==
    /\ chat.init_calls <= 1
    /\ ret.op = "chat_run" => chat.initialized /\ chat.init_calls = 1
    /\ chat.init_failed
        => /\ ~chat.rag_engine
           /\ \A i \in 1..Len(chat.messages) :
                 chat.messages[i].role = "assistant"
                    => chat.messages[i].content = SystemNotReady
           /\ (ret.op = "chat_run" /\ ret.processed)
                 => ret.answered /\ LastMessage(chat).content = SystemNotReady

\* After a failed initialization two messages were asked and answered.
C29_Witness ==
    /\ chat.init_failed /\ chat.initialized /\ chat.init_calls = 1
    /\ Len(chat.messages) = 4
    /\ chat.messages[2].content = SystemNotReady
    /\ chat.messages[4].content = SystemNotReady
    /\ ret.op = "chat_run" /\ ret.answered

(***************************************************************************)
(* Claims about the users table (SpecAuth).                                *)
(***************************************************************************)
\* C25: init_database completes without error from every state of the
\* database, those that register_user and authenticate_user calls left
\* included, and leaves the rows of admin and bhumi in users, both with
\* is_admin = 1.
C25_InitDatabaseSeedsAdmins ==
    ret.op = "init_database"
        => /\ ret.status = "ok"
           /\ db.tables
           /\ \A name \in {admin_username, bhumi_username} :
                 /\ \E u \in db.users : u.username = name /\ u.is_admin = 1
                 /\ \A u \in db.users : u.username = name => u.is_admin = 1

\* init_database ran on a table where admin had logged in and two users had
\* registered, one with admin's address followed by a newline.
C25_Witness ==
    /\ ret.op = "init_database" /\ ret.status = "ok"
    /\ \E u \in ret.before.users : u.username = admin_username /\ u.last_login
    /\ \E u \in ret.before.users : u.username = Eve /\ u.is_admin = 0
    /\ AdminRow \in db.users /\ BhumiRow \in db.users
    /\ \E u \in db.users : u.username = Eve

====
